---- MODULE Spec2Model ----
(***************************************************************************)
(* Oraculo: the knowledge base (core/database.py), the delete_document     *)
(* endpoint (backend/main.py) and the RAG orchestrator (core/rag.py).      *)
(*                                                                         *)
(* Similarity scores are kept in hundredths (0.5 is 50): the embedding     *)
(* vectors used all have an integer norm, so every cosine is an exact      *)
(* number of hundredths.                                                   *)
(***************************************************************************)
EXTENDS Integers, Sequences, FiniteSets, TLC

VARIABLES
  documentos,    \* KnowledgeBase._documentos
  disk,          \* the file knowledge_base.json
  falhas,        \* writes of the file that have failed
  ret,           \* the last call on the knowledge base and what it returned
  memory,        \* OracleRAG._memory of each orchestrator: its messages
  last_sources,  \* OracleRAG._last_sources of each orchestrator
  oracle_sector, \* OracleRAG._sector_id of each orchestrator
  gens,          \* the generators that responder has returned
  oracle_instances, \* _oracle_instances: the orchestrator of each key, 0: no entry
  criados,       \* the OracleRAG objects constructed so far: 1..criados
  chamadas       \* how far each thread is in its call on the knowledge base

storeVars == <<documentos, disk, falhas, ret, chamadas>>
ragVars == <<memory, last_sources, oracle_sector, gens, oracle_instances, criados>>
vars == <<documentos, disk, falhas, ret, memory, last_sources, oracle_sector, gens,
          oracle_instances, criados, chamadas>>

(***************************************************************************)
(* Bounds of the model                                                     *)
(***************************************************************************)
\* chunk records held by the store at the same time
MaxChunks == 5
\* failed writes of the persisted file in one run
MaxFalhas == 1
\* calls of responder in one run
MaxGens == 2
\* fragments the chat provider streams for one answer
MaxFragmentos == 2
\* OracleRAG objects constructed in one run
MaxOraculos == 2

(***************************************************************************)
(* Python values                                                           *)
(***************************************************************************)
\* the None object (no str() of a sector yields this string)
None == "NoneType"

\* the None object where the other values are numbers (k, threshold)
NoneNum == -1

\* str(x) for a sector argument: callers pass a str already, or None
Str(x) == IF x = None THEN "None" ELSE x

(***************************************************************************)
(* Config                                                                  *)
(***************************************************************************)
TOP_K_RESULTS == 8
SIMILARITY_THRESHOLD == 50

(***************************************************************************)
(* Inputs                                                                  *)
(***************************************************************************)
\* (fonte, tipo) of the ingested documents: an uploaded file and a site
Entradas == {<<"a.pdf", "pdf">>, <<"https://s", "site">>}
Fontes == {e[1] : e \in Entradas}
Setores == {"1", "2"}
\* readings of datetime.now().isoformat(): the local wall clock is neither
\* monotonic nor unique, so any reading can come at any call
Leituras == {"T1", "T2"}
\* texts handed to adicionar_documento, as sequences of paragraphs; " " is a
\* whitespace-only paragraph
Textos == {<<" ">>, <<"y", " ", "y">>, <<"z", "w", "z">>}
Perguntas == {"x", "y"}

(***************************************************************************)
(* Collaborators: text splitter and embedding provider                     *)
(***************************************************************************)
\* RecursiveCharacterTextSplitter.split_text: the non-blank paragraphs, in order
SplitText(texto) == SelectSeq(texto, LAMBDA p : p # " ")

\* OpenAIEmbeddings: the vector of a text
Embed(t) ==
  CASE t = "x" -> <<5, 0>>
    [] t = "y" -> <<0, 5>>
    [] t = "z" -> <<3, 4>>
    [] OTHER   -> <<4, 3>>

\* embed_documents(chunks)
EmbedDocuments(chunks) == [i \in 1..Len(chunks) |-> Embed(chunks[i])]

Dot(a, b) == a[1] * b[1] + a[2] * b[2]
Norm(a) == CHOOSE n \in 0..Dot(a, a) : n * n = Dot(a, a)

\* _cosine_similarity, in hundredths
CosineSimilarity(vec1, vec2) == (100 * Dot(vec1, vec2)) \div (Norm(vec1) * Norm(vec2))

(***************************************************************************)
(* Documento and its persisted form                                        *)
(***************************************************************************)
\* Documento(...) as adicionar_documento builds it: the optional metadata
\* keeps the dataclass defaults
Documento(id, content, embedding, source, type, upload_date, chunk_index, total_chunks, sector_id) ==
  [id |-> id, content |-> content, embedding |-> embedding, source |-> source,
   type |-> type, upload_date |-> upload_date, chunk_index |-> chunk_index,
   total_chunks |-> total_chunks, page_number |-> None, timestamp_start |-> None,
   timestamp_end |-> None, heading_context |-> None, content_type |-> "text",
   sector_id |-> sector_id]

\* AsDict that leaves the sector out of the persisted record
AsDictSemSetor(d) ==
  << <<"id", d.id>>, <<"content", d.content>>, <<"embedding", d.embedding>>,
     <<"source", d.source>>, <<"type", d.type>>, <<"upload_date", d.upload_date>>,
     <<"chunk_index", d.chunk_index>>, <<"total_chunks", d.total_chunks>>,
     <<"page_number", d.page_number>>, <<"timestamp_start", d.timestamp_start>>,
     <<"timestamp_end", d.timestamp_end>>, <<"heading_context", d.heading_context>>,
     <<"content_type", d.content_type>> >>

\* dataclasses.asdict: the (name, value) pairs in field order, as json.dump
\* writes them
AsDict(d) ==
  << <<"id", d.id>>, <<"content", d.content>>, <<"embedding", d.embedding>>,
     <<"source", d.source>>, <<"type", d.type>>, <<"upload_date", d.upload_date>>,
     <<"chunk_index", d.chunk_index>>, <<"total_chunks", d.total_chunks>>,
     <<"page_number", d.page_number>>, <<"timestamp_start", d.timestamp_start>>,
     <<"timestamp_end", d.timestamp_end>>, <<"heading_context", d.heading_context>>,
     <<"content_type", d.content_type>>, <<"sector_id", d.sector_id>> >>

CamposObrigatorios ==
  {"id", "content", "embedding", "source", "type", "upload_date", "chunk_index",
   "total_chunks"}
CamposOpcionais ==
  {"page_number", "timestamp_start", "timestamp_end", "heading_context",
   "content_type", "sector_id"}

Chaves(dic) == {dic[i][1] : i \in 1..Len(dic)}
\* json.load keeps the last value of a repeated key
Valor(dic, k) ==
  LET i == CHOOSE j \in 1..Len(dic) :
             dic[j][1] = k /\ \A l \in (j + 1)..Len(dic) : dic[l][1] # k
  IN dic[i][2]
ValorOu(dic, k, padrao) == IF k \in Chaves(dic) THEN Valor(dic, k) ELSE padrao

\* Documento(**d) raises TypeError on a missing required or an unknown key
DictValido(dic) ==
  /\ CamposObrigatorios \subseteq Chaves(dic)
  /\ Chaves(dic) \subseteq (CamposObrigatorios \cup CamposOpcionais)

\* FromDict of a reader that predates the sector field
FromDictSemSetor(dic) ==
  [id |-> Valor(dic, "id"), content |-> Valor(dic, "content"),
   embedding |-> Valor(dic, "embedding"), source |-> Valor(dic, "source"),
   type |-> Valor(dic, "type"), upload_date |-> Valor(dic, "upload_date"),
   chunk_index |-> Valor(dic, "chunk_index"),
   total_chunks |-> Valor(dic, "total_chunks"),
   page_number |-> ValorOu(dic, "page_number", None),
   timestamp_start |-> ValorOu(dic, "timestamp_start", None),
   timestamp_end |-> ValorOu(dic, "timestamp_end", None),
   heading_context |-> ValorOu(dic, "heading_context", None),
   content_type |-> ValorOu(dic, "content_type", "text"),
   sector_id |-> "default"]

\* Documento(**d)
FromDict(dic) ==
  [id |-> Valor(dic, "id"), content |-> Valor(dic, "content"),
   embedding |-> Valor(dic, "embedding"), source |-> Valor(dic, "source"),
   type |-> Valor(dic, "type"), upload_date |-> Valor(dic, "upload_date"),
   chunk_index |-> Valor(dic, "chunk_index"),
   total_chunks |-> Valor(dic, "total_chunks"),
   page_number |-> ValorOu(dic, "page_number", None),
   timestamp_start |-> ValorOu(dic, "timestamp_start", None),
   timestamp_end |-> ValorOu(dic, "timestamp_end", None),
   heading_context |-> ValorOu(dic, "heading_context", None),
   content_type |-> ValorOu(dic, "content_type", "text"),
   sector_id |-> ValorOu(dic, "sector_id", "default")]

\* the persisted file: absent, a JSON list of records, or not parseable
Ausente == [estado |-> "ausente", dados |-> <<>>]
Corrompido == [estado |-> "corrompido", dados |-> <<>>]
Arquivo(dados) == [estado |-> "ok", dados |-> dados]

\* _carregar_db: the collection after loading file d
CarregarDb(d) ==
  IF d.estado = "ok" /\ \A i \in 1..Len(d.dados) : DictValido(d.dados[i])
  THEN [i \in 1..Len(d.dados) |-> FromDict(d.dados[i])]
  ELSE <<>>

ResultadosDeEscrita == {"ok", "falha_abrir", "falha_escrita"}

\* SalvarDb that opens the file for appending: what was there stays in front
SalvarDbAcrescentando(docs, d, resultado) ==
  CASE resultado = "ok" ->
         IF d.estado = "ausente" THEN Arquivo([i \in 1..Len(docs) |-> AsDict(docs[i])])
         ELSE Corrompido
    [] resultado = "falha_abrir" -> d
    [] OTHER -> Corrompido

\* _salvar_db: the file after writing docs over file d. "falha_abrir": makedirs
\* or open raised, the file is untouched; "falha_escrita": open truncated the
\* file and the dump raised before completing it
SalvarDb(docs, d, resultado) ==
  CASE resultado = "ok" -> Arquivo([i \in 1..Len(docs) |-> AsDict(docs[i])])
    [] resultado = "falha_abrir" -> d
    [] OTHER -> Corrompido

(***************************************************************************)
(* KnowledgeBase: the pure part of each operation                          *)
(***************************************************************************)
Min(a, b) == IF a <= b THEN a ELSE b

\* s[:k] for k >= 0
Prefixo(s, k) == SubSeq(s, 1, Min(k, Len(s)))

\* f"{base_id}_{i}" with base_id = f"{fonte}_{timestamp}": the three parts of
\* the concatenation
IdDe(fonte, timestamp, i) == <<fonte, timestamp, i>>

\* the novos_docs of adicionar_documento (enumerate counts from 0)
NovosDocs(texto, fonte, tipo, sector_id, timestamp) ==
  LET chunks == SplitText(texto)
      embeddings == EmbedDocuments(chunks)
  IN [j \in 1..Len(chunks) |->
        Documento(IdDe(fonte, timestamp, j - 1), chunks[j], embeddings[j], fonte,
                  tipo, timestamp, j - 1, Len(chunks), Str(sector_id))]

\* DoSetor without the sector filter
DoSetorSemFiltro(docs, sector_id) == docs

\* [d for d in documentos if str(d.sector_id) == str(sector_id)], or all of
\* them when sector_id is None
DoSetor(docs, sector_id) ==
  IF sector_id # None
  THEN SelectSeq(docs, LAMBDA d : Str(d.sector_id) = Str(sector_id))
  ELSE docs

\* Inserir that puts e before the elements of equal score (an unstable sort)
InserirAntesDosIguais(ordenados, e) ==
  LET menores == {j \in 1..Len(ordenados) : ordenados[j].score <= e.score}
      pos == IF menores = {} THEN Len(ordenados) + 1
             ELSE CHOOSE j \in menores : \A l \in menores : j <= l
  IN SubSeq(ordenados, 1, pos - 1) \o <<e>> \o SubSeq(ordenados, pos, Len(ordenados))

\* one step of list.sort(key=score, reverse=True): e goes after every element
\* whose score is not below its own
Inserir(ordenados, e) ==
  LET menores == {j \in 1..Len(ordenados) : ordenados[j].score < e.score}
      pos == IF menores = {} THEN Len(ordenados) + 1
             ELSE CHOOSE j \in menores : \A l \in menores : j <= l
  IN SubSeq(ordenados, 1, pos - 1) \o <<e>> \o SubSeq(ordenados, pos, Len(ordenados))

RECURSIVE Ordenar(_)
\* resultados.sort(key=lambda x: x[1], reverse=True)
Ordenar(resultados) ==
  IF resultados = <<>> THEN <<>>
  ELSE Inserir(Ordenar(SubSeq(resultados, 1, Len(resultados) - 1)),
               resultados[Len(resultados)])

\* the (doc, score) list of buscar before the threshold
Resultados(docs, pergunta, sector_id) ==
  LET candidatos == DoSetor(docs, sector_id)
      query_embedding == Embed(pergunta)
  IN Ordenar([i \in 1..Len(candidatos) |->
                [doc |-> candidatos[i],
                 score |-> CosineSimilarity(query_embedding, candidatos[i].embedding)]])

\* Fallback that relaxes the filter only above 3 candidates
FallbackAcimaDeTres(resultados, k, threshold) ==
  LET resultados_filtrados == SelectSeq(resultados, LAMBDA r : r.score >= threshold)
  IN IF Len(resultados_filtrados) < 3 /\ Len(resultados) > 3
     THEN Prefixo(resultados, k)
     ELSE Prefixo(resultados_filtrados, k)

\* threshold filter and fallback of buscar
Fallback(resultados, k, threshold) ==
  LET resultados_filtrados == SelectSeq(resultados, LAMBDA r : r.score >= threshold)
  IN IF Len(resultados_filtrados) < 3 /\ Len(resultados) >= 3
     THEN Prefixo(resultados, k)
     ELSE Prefixo(resultados_filtrados, k)

\* the final resultados_filtrados of buscar, as (doc, score) pairs
ResultadosFiltrados(docs, pergunta, sector_id, k, threshold) ==
  LET kk == IF k = NoneNum THEN TOP_K_RESULTS ELSE k
      th == IF threshold = NoneNum THEN SIMILARITY_THRESHOLD ELSE threshold
  IN IF DoSetor(docs, sector_id) = <<>> THEN <<>>
     ELSE Fallback(Resultados(docs, pergunta, sector_id), kk, th)

\* the dict buscar returns for one (doc, score) pair
Expandido(r) ==
  [content |-> r.doc.content, source |-> r.doc.source, type |-> r.doc.type,
   score |-> r.score, page_number |-> r.doc.page_number,
   timestamp_start |-> r.doc.timestamp_start,
   heading_context |-> r.doc.heading_context, content_type |-> r.doc.content_type]

\* buscar
Buscar(docs, pergunta, sector_id, k, threshold) ==
  LET pares == ResultadosFiltrados(docs, pergunta, sector_id, k, threshold)
  IN [i \in 1..Len(pares) |-> Expandido(pares[i])]

\* get_estatisticas that counts the whole collection
GetEstatisticasSemFiltro(docs, sector_id) ==
  LET fontes == {docs[i].source : i \in 1..Len(docs)}
      tipos == [t \in {docs[i].type : i \in 1..Len(docs)} |->
                  Cardinality({i \in 1..Len(docs) : docs[i].type = t})]
  IN [total_chunks |-> Len(docs), total_documentos |-> Cardinality(fontes),
      fontes |-> fontes, tipos |-> tipos]

\* get_estatisticas
GetEstatisticas(docs, sector_id) ==
  LET ds == DoSetor(docs, sector_id)
      fontes == {ds[i].source : i \in 1..Len(ds)}
      tipos == [t \in {ds[i].type : i \in 1..Len(ds)} |->
                  Cardinality({i \in 1..Len(ds) : ds[i].type = t})]
  IN [total_chunks |-> Len(ds), total_documentos |-> Cardinality(fontes),
      fontes |-> fontes, tipos |-> tipos]

\* the collection limpar_base rebinds
AposLimpar(docs, sector_id) ==
  IF sector_id # None
  THEN SelectSeq(docs, LAMBDA d : Str(d.sector_id) # Str(sector_id))
  ELSE <<>>

\* AposRemover that ignores the sector
AposRemoverEmTodos(docs, fonte, sector_id) ==
  SelectSeq(docs, LAMBDA d : d.source # fonte)

\* the collection remover_documento (and delete_document) rebinds
AposRemover(docs, fonte, sector_id) ==
  IF sector_id # None
  THEN SelectSeq(docs, LAMBDA d : ~(d.source = fonte /\ Str(d.sector_id) = Str(sector_id)))
  ELSE SelectSeq(docs, LAMBDA d : d.source # fonte)

\* urllib.parse.unquote on the request paths used here
Unquote(s) ==
  CASE s = "a%252Epdf" -> "a%2Epdf"
    [] s = "a%2Epdf" -> "a.pdf"
    [] OTHER -> s

RECURSIVE Decodificar(_)
\* while prev != source: prev = source; source = unquote(source)
Decodificar(s) == IF Unquote(s) = s THEN s ELSE Decodificar(Unquote(s))

\* re.sub(r"^(https?:)/([^/])", r"\1//\2", source)
NormalizarUrl(s) == IF s = "https:/s" THEN "https://s" ELSE s

\* request paths of DELETE /documents/{source}
Caminhos == {"a.pdf", "a%252Epdf", "https:/s"}

(***************************************************************************)
(* The last call and what it returned                                      *)
(***************************************************************************)
\* pares: the (doc, score) pairs behind the list buscar returned; antes: the
\* length of the collection when the call began; texto: the text handed to
\* adicionar_documento; n: the count returned (NoneNum when the operation
\* returns no count); oracle: the orchestrator the call obtained from the
\* registry or acted on
SemRet ==
  [op |-> "nenhuma", fonte |-> None, setor |-> None, pergunta |-> None,
   k |-> NoneNum, threshold |-> NoneNum, status |-> "ok", n |-> 0, pares |-> <<>>,
   stats |-> GetEstatisticas(<<>>, None), antes |-> 0, texto |-> <<>>, oracle |-> 0]

\* the list the last buscar returned
Retorno == [i \in 1..Len(ret.pares) |-> Expandido(ret.pares[i])]

(***************************************************************************)
(* Operations. Each takes the outcomes its collaborators may have: embs    *)
(* for the embedding provider (TRUE: it answers), escritas for the write   *)
(* of the persisted file                                                   *)
(***************************************************************************)
\* a generator slot that responder has not used yet. self: the orchestrator
\* the generator belongs to; na_chamada: the messages of its session when
\* responder was called (kept until the generator first runs)
\* a context not built yet; a built context is a fixed text (fixo) or the
\* parts that the separator joins
SemContexto == [fixo |-> "", partes |-> <<>>]

GenLivre ==
  [pc |-> "livre", self |-> 0, pergunta |-> None, sector_id |-> None,
   resposta_completa |-> <<>>, enviados |-> <<>>, chat_history |-> <<>>,
   contexto |-> SemContexto, na_chamada |-> <<>>,
   com_fontes |-> FALSE, fontes |-> <<>>]

\* the keys of _oracle_instances
ChavesDoRegistro == {"global"} \cup Setores

\* the threads that call the knowledge base
Threads == {1, 2}

\* a thread that is in no call: op and its arguments, the locals novos_docs,
\* the list a comprehension has built (filtrados) and dados of _salvar_db,
\* and whether no other call has run during this one (sozinha)
SemChamada ==
  [pc |-> "livre", op |-> "nenhuma", fonte |-> None, setor |-> None, novos_docs |-> <<>>,
   filtrados |-> <<>>, dados |-> <<>>, sozinha |-> TRUE]

\* the module rag before any get_oracle_rag: no orchestrator, an empty
\* registry; an object not yet constructed has the fields __init__ gives it
InitRag ==
  /\ memory = [o \in 1..MaxOraculos |-> <<>>]
  /\ last_sources = [o \in 1..MaxOraculos |-> <<>>]
  /\ oracle_sector = [o \in 1..MaxOraculos |-> None]
  /\ gens = [g \in 1..MaxGens |-> GenLivre]
  /\ oracle_instances = [key \in ChavesDoRegistro |-> 0]
  /\ criados = 0

Init ==
  /\ disk \in {Ausente, Corrompido, Arquivo(<<>>)}
  /\ documentos = CarregarDb(disk)
  /\ falhas = 0
  /\ ret = SemRet
  /\ InitRag
  /\ chamadas = [t \in Threads |-> SemChamada]

\* the outcomes of a write that the failure bound still allows
Permitidas(escritas) == IF falhas < MaxFalhas THEN escritas ELSE {"ok"}

\* AdicionarDocumento without the early return on an empty chunk list
AdicionarDocumentoSemGuarda(leituras, embs, escritas) ==
  /\ UNCHANGED <<ragVars, chamadas>>
  /\ \E texto \in Textos, e \in Entradas, sector_id \in Setores :
    LET chunks == SplitText(texto)
        chamada == [SemRet EXCEPT !.op = "adicionar_documento", !.fonte = e[1],
                                  !.setor = sector_id, !.antes = Len(documentos),
                                  !.texto = texto]
    IN /\ Len(documentos) + Len(chunks) <= MaxChunks
       /\ \/ /\ FALSE \in embs
             /\ ret' = [chamada EXCEPT !.status = "erro"]
             /\ UNCHANGED <<documentos, disk, falhas>>
          \/ /\ TRUE \in embs
             /\ \E timestamp \in leituras, escrita \in Permitidas(escritas) :
                  LET novos_docs == NovosDocs(texto, e[1], e[2], sector_id, timestamp)
                  IN /\ documentos' = documentos \o novos_docs
                     /\ disk' = SalvarDb(documentos', disk, escrita)
                     /\ falhas' = IF escrita = "ok" THEN falhas ELSE falhas + 1
                     /\ ret' = IF escrita = "ok"
                               THEN [chamada EXCEPT !.n = Len(novos_docs)]
                               ELSE [chamada EXCEPT !.status = "erro"]

\* AdicionarDocumento that stores the first chunk before the embedding call
AdicionarDocumentoParcial(leituras, embs, escritas) ==
  /\ UNCHANGED <<ragVars, chamadas>>
  /\ \E texto \in Textos, e \in Entradas, sector_id \in Setores :
    LET chunks == SplitText(texto)
        chamada == [SemRet EXCEPT !.op = "adicionar_documento", !.fonte = e[1],
                                  !.setor = sector_id, !.antes = Len(documentos),
                                  !.texto = texto]
    IN IF chunks = <<>>
       THEN /\ ret' = [chamada EXCEPT !.n = 0]
            /\ UNCHANGED <<documentos, disk, falhas>>
       ELSE /\ Len(documentos) + Len(chunks) <= MaxChunks
            /\ \/ /\ FALSE \in embs
                  /\ ret' = [chamada EXCEPT !.status = "erro"]
                  /\ \E timestamp \in leituras :
                       documentos' = documentos
                         \o <<NovosDocs(texto, e[1], e[2], sector_id, timestamp)[1]>>
                  /\ UNCHANGED <<disk, falhas>>
               \/ /\ TRUE \in embs
                  /\ \E timestamp \in leituras, escrita \in Permitidas(escritas) :
                       LET novos_docs == NovosDocs(texto, e[1], e[2], sector_id, timestamp)
                       IN /\ documentos' = documentos \o novos_docs
                          /\ disk' = SalvarDb(documentos', disk, escrita)
                          /\ falhas' = IF escrita = "ok" THEN falhas ELSE falhas + 1
                          /\ ret' = IF escrita = "ok"
                                    THEN [chamada EXCEPT !.n = Len(novos_docs)]
                                    ELSE [chamada EXCEPT !.status = "erro"]

\* adicionar_documento: split, embed, stamp, extend, save
AdicionarDocumento(leituras, embs, escritas) ==
  /\ UNCHANGED <<ragVars, chamadas>>
  /\ \E texto \in Textos, e \in Entradas, sector_id \in Setores :
    LET chunks == SplitText(texto)
        chamada == [SemRet EXCEPT !.op = "adicionar_documento", !.fonte = e[1],
                                  !.setor = sector_id, !.antes = Len(documentos),
                                  !.texto = texto]
    IN IF chunks = <<>>
       THEN /\ ret' = [chamada EXCEPT !.n = 0]
            /\ UNCHANGED <<documentos, disk, falhas>>
       ELSE /\ Len(documentos) + Len(chunks) <= MaxChunks
            /\ \/ /\ FALSE \in embs
                  /\ ret' = [chamada EXCEPT !.status = "erro"]
                  /\ UNCHANGED <<documentos, disk, falhas>>
               \/ /\ TRUE \in embs
                  /\ \E timestamp \in leituras, escrita \in Permitidas(escritas) :
                       LET novos_docs == NovosDocs(texto, e[1], e[2], sector_id, timestamp)
                       IN /\ documentos' = documentos \o novos_docs
                          /\ disk' = SalvarDb(documentos', disk, escrita)
                          /\ falhas' = IF escrita = "ok" THEN falhas ELSE falhas + 1
                          /\ ret' = IF escrita = "ok"
                                    THEN [chamada EXCEPT !.n = Len(novos_docs)]
                                    ELSE [chamada EXCEPT !.status = "erro"]

BuscarDocumentos(embs) ==
  /\ UNCHANGED <<ragVars, chamadas>>
  /\ \E pergunta \in Perguntas, sector_id \in Setores \cup {None}, k \in {NoneNum, 2},
     threshold \in {NoneNum, 90}, embOk \in embs :
    LET chamada == [SemRet EXCEPT !.op = "buscar", !.pergunta = pergunta,
                                  !.setor = sector_id, !.k = k,
                                  !.threshold = threshold, !.antes = Len(documentos)]
    IN /\ ret' = IF DoSetor(documentos, sector_id) # <<>> /\ ~embOk
                 THEN [chamada EXCEPT !.status = "erro"]
                 ELSE [chamada EXCEPT
                         !.pares = ResultadosFiltrados(documentos, pergunta, sector_id, k, threshold)]
       /\ UNCHANGED <<documentos, disk, falhas>>

Estatisticas ==
  /\ UNCHANGED <<ragVars, chamadas>>
  /\ \E sector_id \in Setores \cup {None} :
    /\ ret' = [SemRet EXCEPT !.op = "get_estatisticas", !.setor = sector_id,
                             !.stats = GetEstatisticas(documentos, sector_id),
                             !.antes = Len(documentos)]
    /\ UNCHANGED <<documentos, disk, falhas>>

LimparBase(escritas) ==
  /\ UNCHANGED <<ragVars, chamadas>>
  /\ \E sector_id \in Setores \cup {None}, escrita \in Permitidas(escritas) :
    /\ documentos' = AposLimpar(documentos, sector_id)
    /\ disk' = SalvarDb(documentos', disk, escrita)
    /\ falhas' = IF escrita = "ok" THEN falhas ELSE falhas + 1
    /\ ret' = [SemRet EXCEPT !.op = "limpar_base", !.setor = sector_id,
                             !.status = IF escrita = "ok" THEN "ok" ELSE "false",
                             !.antes = Len(documentos)]

RemoverDocumento(escritas) ==
  /\ UNCHANGED <<ragVars, chamadas>>
  /\ \E fonte \in Fontes, sector_id \in Setores \cup {None},
     escrita \in Permitidas(escritas) :
    /\ documentos' = AposRemover(documentos, fonte, sector_id)
    /\ disk' = SalvarDb(documentos', disk, escrita)
    /\ falhas' = IF escrita = "ok" THEN falhas ELSE falhas + 1
    /\ ret' = [SemRet EXCEPT !.op = "remover_documento", !.fonte = fonte,
                             !.setor = sector_id, !.n = NoneNum,
                             !.status = IF escrita = "ok" THEN "ok" ELSE "false",
                             !.antes = Len(documentos)]

DeleteDocument(escritas) ==
  /\ UNCHANGED <<ragVars, chamadas>>
  /\ \E caminho \in Caminhos, sector_id \in Setores \cup {None} :
    LET source == NormalizarUrl(Decodificar(caminho))
        initial_count == Len(documentos)
        restantes == AposRemover(documentos, source, sector_id)
        removed == initial_count - Len(restantes)
        chamada == [SemRet EXCEPT !.op = "delete_document", !.fonte = source,
                                  !.setor = sector_id, !.n = removed,
                                  !.antes = initial_count]
    IN /\ documentos' = restantes
       /\ IF removed > 0
          THEN \E escrita \in Permitidas(escritas) :
                 /\ disk' = SalvarDb(documentos', disk, escrita)
                 /\ falhas' = IF escrita = "ok" THEN falhas ELSE falhas + 1
                 /\ ret' = IF escrita = "ok" THEN chamada
                           ELSE [chamada EXCEPT !.status = "erro"]
          ELSE /\ ret' = [chamada EXCEPT !.status = "404"]
               /\ UNCHANGED <<disk, falhas>>

\* the store with collaborators that do not fail
Next ==
  \/ AdicionarDocumento(Leituras, {TRUE}, {"ok"})
  \/ BuscarDocumentos({TRUE})
  \/ Estatisticas
  \/ LimparBase({"ok"})
  \/ RemoverDocumento({"ok"})
  \/ DeleteDocument({"ok"})

Spec == Init /\ [][Next]_vars

\* the mutating operations with an embedding provider and a file system that
\* may fail
NextFalhas ==
  \/ AdicionarDocumento({"T1"}, BOOLEAN, ResultadosDeEscrita)
  \/ LimparBase(ResultadosDeEscrita)
  \/ RemoverDocumento(ResultadosDeEscrita)
  \/ DeleteDocument(ResultadosDeEscrita)

SpecFalhas == Init /\ [][NextFalhas]_vars

(***************************************************************************)
(* Startup: KnowledgeBase() over a file that an earlier process left       *)
(***************************************************************************)
\* a record as written before the optional metadata and the sector existed:
\* chunk i of a.pdf, with the required keys only
RegistroLegado(i) ==
  << <<"id", IdDe("a.pdf", "T0", i)>>, <<"content", "z">>, <<"embedding", Embed("z")>>,
     <<"source", "a.pdf">>, <<"type", "pdf">>, <<"upload_date", "T0">>,
     <<"chunk_index", i>>, <<"total_chunks", 2>> >>

\* a record with every key, the optional metadata set
RegistroCompleto ==
  AsDict([Documento(IdDe("https://s", "T0", 0), "w", Embed("w"), "https://s", "site",
                    "T0", 0, 1, "1")
            EXCEPT !.heading_context = "Intro", !.content_type = "table"])

\* a record whose optional page_number holds a string where a number is due
RegistroComValorMalformado ==
  AsDict([Documento(IdDe("https://s", "T0", 0), "y", Embed("y"), "https://s", "site",
                    "T0", 0, 1, "2")
            EXCEPT !.page_number = "abc"])

\* a record with an optional key that Documento does not declare
RegistroComChaveExtra == RegistroCompleto \o << <<"language", "pt">> >>

\* the files a starting process may find
ArquivosIniciais ==
  {Ausente, Corrompido, Arquivo(<<>>),
   Arquivo(<<RegistroLegado(0), RegistroLegado(1)>>),
   Arquivo(<<RegistroCompleto, RegistroLegado(0), RegistroLegado(1)>>),
   Arquivo(<<RegistroLegado(0), RegistroComValorMalformado, RegistroLegado(1)>>),
   Arquivo(<<RegistroLegado(0), RegistroComChaveExtra, RegistroLegado(1)>>)}

InitCarga ==
  /\ disk \in ArquivosIniciais
  /\ documentos = CarregarDb(disk)
  /\ falhas = 0
  /\ ret = SemRet
  /\ InitRag
  /\ chamadas = [t \in Threads |-> SemChamada]

\* KnowledgeBase.__init__ in a new process: the collection is loaded from the
\* file (the directory of the file exists or makedirs creates it)
Construir ==
  /\ UNCHANGED <<ragVars, chamadas>>
  /\ documentos' = CarregarDb(disk)
  /\ ret' = [SemRet EXCEPT !.op = "construir", !.antes = Len(documentos)]
  /\ UNCHANGED <<disk, falhas>>

NextCarga ==
  \/ Construir
  \/ AdicionarDocumento({"T1"}, {TRUE}, {"ok"})
  \/ BuscarDocumentos({TRUE})
  \/ Estatisticas

\* a process that starts over an existing file and is then used
SpecCarga == InitCarga /\ [][NextCarga]_vars

(***************************************************************************)
(* OracleRAG: the orchestrators, their registry and the generators of      *)
(* their responder calls                                                   *)
(***************************************************************************)
\* len(content) of the chunk texts
Tamanho(content) ==
  CASE content = "w" -> 151
    [] content = "z" -> 150
    [] OTHER -> 40

\* content[:150] + "..." if len(content) > 150 else content
Excerpt(content) ==
  IF Tamanho(content) > 150
  THEN [texto |-> content, ate |-> 150, sufixo |-> "..."]
  ELSE [texto |-> content, ate |-> Tamanho(content), sufixo |-> ""]

\* doc.get(chave, None) on a dict that buscar returned
Get(doc, chave) == IF chave \in DOMAIN doc THEN doc[chave] ELSE None

RECURSIVE ExtractSourcesDeSemDedup(_, _)
\* ExtractSourcesDe that never skips a source already seen
ExtractSourcesDeSemDedup(docs, seen) ==
  IF docs = <<>> THEN <<>>
  ELSE LET doc == Head(docs)
       IN <<[name |-> doc.source, score |-> Get(doc, "similarity"),
             excerpt |-> Excerpt(doc.content)]>>
          \o ExtractSourcesDeSemDedup(Tail(docs), seen \cup {doc.source})

RECURSIVE ExtractSourcesDe(_, _)
\* the loop of _extract_sources over documentos, seen_sources being seen
ExtractSourcesDe(docs, seen) ==
  IF docs = <<>> THEN <<>>
  ELSE LET doc == Head(docs)
       IN IF doc.source \in seen
          THEN ExtractSourcesDe(Tail(docs), seen)
          ELSE <<[name |-> doc.source, score |-> Get(doc, "similarity"),
                  excerpt |-> Excerpt(doc.content)]>>
               \o ExtractSourcesDe(Tail(docs), seen \cup {doc.source})

\* _extract_sources
ExtractSources(docs) == ExtractSourcesDe(docs, {})

\* Relevancia with the upper threshold included in the high label
RelevanciaInclusiva(score) ==
  IF score >= 80 THEN "ALTA" ELSE IF score > 60 THEN "MEDIA" ELSE "BAIXA"

\* the relevance label of _build_context, score in hundredths
Relevancia(score) ==
  IF score > 80 THEN "ALTA" ELSE IF score > 60 THEN "MEDIA" ELSE "BAIXA"

\* the text _build_context returns when there are no chunks
SemInformacao == "Nenhuma informacao encontrada na base de conhecimento."

\* _build_context: "[i] Fonte: fonte | Relevancia: relevancia\nconteudo" for
\* each chunk, numbered from 1
BuildContext(docs) ==
  IF docs = <<>>
  THEN [fixo |-> SemInformacao, partes |-> <<>>]
  ELSE [fixo |-> "",
        partes |-> [i \in 1..Len(docs) |->
                      [i |-> i, fonte |-> docs[i].source,
                       relevancia |-> Relevancia(docs[i].score),
                       conteudo |-> docs[i].content]]]

\* sector_id or self._sector_id
SectorOu(sector_id, proprio) == IF sector_id # None THEN sector_id ELSE proprio

Mensagem(papel, conteudo) == [role |-> papel, content |-> conteudo]

\* MemoriaApos that saves the turn also when the stream failed
MemoriaAposComParcial(mem, pergunta, resposta_completa, evento) ==
  IF evento \in {"fim", "falha"}
  THEN mem \o <<Mensagem("user", pergunta), Mensagem("assistant", resposta_completa)>>
  ELSE mem

\* the messages of the session after the loop over chain.stream took evento:
\* add_user_message and add_ai_message run only when the loop has ended
\* ("fim"), not when it yields ("fragmento") or the provider raises ("falha")
MemoriaApos(mem, pergunta, resposta_completa, evento) ==
  IF evento = "fim"
  THEN mem \o <<Mensagem("user", pergunta), Mensagem("assistant", resposta_completa)>>
  ELSE mem

\* the n-th fragment the chat provider streams for an answer
Fragmento(n) == CASE n = 1 -> "a" [] n = 2 -> "b" [] OTHER -> "c"

\* what the chat provider does when asked for the next fragment
Eventos == {"fragmento", "fim", "falha"}

\* a generator that ended without completing: its frame is gone with its
\* locals; enviados stays, as the consumer has those fragments
GenFinal(gen, pc) == [GenLivre EXCEPT !.pc = pc, !.enviados = gen.enviados]

\* the generator after the loop over chain.stream took evento
GenApos(gen, evento) ==
  CASE evento = "fragmento" ->
         LET token == Fragmento(Len(gen.enviados) + 1)
         IN [gen EXCEPT !.pc = "suspenso",
                        !.resposta_completa = gen.resposta_completa \o <<token>>,
                        !.enviados = gen.enviados \o <<token>>]
    [] evento = "fim" -> [GenLivre EXCEPT !.pc = "completo"]
    [] OTHER -> GenFinal(gen, "erro")

\* ChaveDe of a registry with one key for every tenant
ChaveDeUnica(sector_id) == "global"

\* key = str(sector_id) if sector_id else "global"
ChaveDe(sector_id) == IF sector_id # None THEN Str(sector_id) ELSE "global"

\* get_oracle_rag(sector_id) returning the orchestrator o: the one of the
\* key, or a new OracleRAG(sector_id=sector_id) entered under the key
GetOracleRag(sector_id, o) ==
  LET key == ChaveDe(sector_id)
      existe == oracle_instances[key] # 0
  IN /\ o = IF existe THEN oracle_instances[key] ELSE criados + 1
     /\ o <= MaxOraculos
     /\ oracle_instances' = [oracle_instances EXCEPT ![key] = o]
     /\ criados' = IF existe THEN criados ELSE criados + 1
     /\ oracle_sector' = [oracle_sector EXCEPT ![o] = IF existe THEN @ ELSE sector_id]

\* the fields of orchestrator o
Oraculo(o) ==
  [memory |-> memory[o], last_sources |-> last_sources[o], sector_id |-> oracle_sector[o]]

\* AposSetSector that keeps the conversation on a switch
AposSetSectorSemLimpar(orc, sector_id) == [orc EXCEPT !.sector_id = sector_id]

\* the orchestrator after set_sector(sector_id)
AposSetSector(orc, sector_id) ==
  IF orc.sector_id # sector_id
  THEN [memory |-> <<>>, last_sources |-> <<>>, sector_id |-> sector_id]
  ELSE orc

\* SemDocumentos that looks at the whole collection
SemDocumentosEmTodos(docs, sector_id) ==
  GetEstatisticas(docs, None).total_documentos = 0

\* stats["total_documentos"] == 0 for the sector of the request
SemDocumentos(docs, sector_id) ==
  GetEstatisticas(docs, sector_id).total_documentos = 0

\* Responder that retrieves and sets the citation list in the call itself
ResponderAnsioso ==
  \E o \in 1..criados, g \in 1..MaxGens, pergunta \in Perguntas, sector_id \in {None, "2"} :
    /\ gens[g].pc = "livre"
    /\ \A h \in 1..(g - 1) : gens[h].pc # "livre"
    /\ gens' = [gens EXCEPT ![g] = [GenLivre EXCEPT !.pc = "criado", !.self = o,
                                                   !.pergunta = pergunta,
                                                   !.sector_id = sector_id,
                                                   !.na_chamada = memory[o]]]
    /\ last_sources' = [last_sources EXCEPT ![o] =
                          ExtractSources(Buscar(documentos, pergunta,
                                                SectorOu(sector_id, oracle_sector[o]),
                                                NoneNum, NoneNum))]
    /\ UNCHANGED <<memory, oracle_sector, oracle_instances, criados>>
    /\ UNCHANGED storeVars

\* responder(pergunta, sector_id) on orchestrator o: the call only builds the
\* generator
Responder ==
  \E o \in 1..criados, g \in 1..MaxGens, pergunta \in Perguntas, sector_id \in {None, "2"} :
    /\ gens[g].pc = "livre"
    /\ \A h \in 1..(g - 1) : gens[h].pc # "livre"
    /\ gens' = [gens EXCEPT ![g] = [GenLivre EXCEPT !.pc = "criado", !.self = o,
                                                   !.pergunta = pergunta,
                                                   !.sector_id = sector_id,
                                                   !.na_chamada = memory[o]]]
    /\ UNCHANGED <<memory, last_sources, oracle_sector, oracle_instances, criados>>
    /\ UNCHANGED storeVars

\* the first next() of a generator: retrieval, citation list, then the loop
\* over chain.stream up to its first yield, its end or its failure; embs and
\* eventos are what the embedding and the chat provider may do
PrimeiroNext(embs, eventos) ==
  \E g \in 1..MaxGens, embOk \in embs, evento \in eventos :
    LET gen == gens[g]
        o == gen.self
        sector == SectorOu(gen.sector_id, oracle_sector[o])
        docs == Buscar(documentos, gen.pergunta, sector, NoneNum, NoneNum)
        iniciado == [gen EXCEPT !.chat_history = memory[o], !.na_chamada = <<>>,
                                !.contexto = BuildContext(docs)]
    IN /\ gen.pc = "criado"
       /\ UNCHANGED <<oracle_sector, oracle_instances, criados, storeVars>>
       /\ IF DoSetor(documentos, sector) # <<>> /\ ~embOk
          THEN /\ gens' = [gens EXCEPT ![g] = GenFinal(gen, "erro")]
               /\ UNCHANGED <<memory, last_sources>>
          ELSE /\ last_sources' = [last_sources EXCEPT ![o] = ExtractSources(docs)]
               /\ gens' = [gens EXCEPT ![g] = GenApos(iniciado, evento)]
               /\ memory' = [memory EXCEPT ![o] =
                               MemoriaApos(@, gen.pergunta, iniciado.resposta_completa,
                                           evento)]

\* a later next(): the generator resumes after its yield
ProximoNext(eventos) ==
  \E g \in 1..MaxGens, evento \in eventos :
    LET gen == gens[g]
    IN /\ gen.pc = "suspenso"
       /\ evento = "fragmento" => Len(gen.enviados) < MaxFragmentos
       /\ gens' = [gens EXCEPT ![g] = GenApos(gen, evento)]
       /\ memory' = [memory EXCEPT ![gen.self] =
                       MemoriaApos(@, gen.pergunta, gen.resposta_completa, evento)]
       /\ UNCHANGED <<last_sources, oracle_sector, oracle_instances, criados, storeVars>>

\* the consumer drops the generator: never started, or closed at its yield
Abandonar ==
  \E g \in 1..MaxGens :
    /\ gens[g].pc \in {"criado", "suspenso"}
    /\ gens' = [gens EXCEPT ![g] = GenFinal(gens[g], "abandonado")]
    /\ UNCHANGED <<memory, last_sources, oracle_sector, oracle_instances, criados,
                   storeVars>>

\* limpar_memoria on orchestrator o
LimparMemoria ==
  \E o \in 1..criados :
    /\ memory' = [memory EXCEPT ![o] = <<>>]
    /\ last_sources' = [last_sources EXCEPT ![o] = <<>>]
    /\ UNCHANGED <<oracle_sector, gens, oracle_instances, criados, storeVars>>

\* the knowledge base after ingesting a.pdf under sector 1 and then https://s
\* under sector 2
BaseIngerida ==
  NovosDocs(<<"z", "w", "z">>, "a.pdf", "pdf", "1", "T1")
    \o NovosDocs(<<"y", " ", "y">>, "https://s", "site", "2", "T2")

\* one orchestrator, OracleRAG(sector_id=s), entered in the registry
InitOracle ==
  /\ documentos = BaseIngerida
  /\ disk = SalvarDb(documentos, Ausente, "ok")
  /\ falhas = 0
  /\ ret = SemRet
  /\ memory = [o \in 1..MaxOraculos |-> <<>>]
  /\ last_sources = [o \in 1..MaxOraculos |-> <<>>]
  /\ gens = [g \in 1..MaxGens |-> GenLivre]
  /\ criados = 1
  /\ chamadas = [t \in Threads |-> SemChamada]
  /\ \E s \in {None, "1"} :
       /\ oracle_sector = [o \in 1..MaxOraculos |-> IF o = 1 THEN s ELSE None]
       /\ oracle_instances = [key \in ChavesDoRegistro |->
                                IF key = ChaveDe(s) THEN 1 ELSE 0]

NextOracle ==
  \/ Responder
  \/ PrimeiroNext(BOOLEAN, Eventos)
  \/ ProximoNext(Eventos)
  \/ Abandonar
  \/ LimparMemoria

\* one orchestrator over an ingested knowledge base
SpecOracle == InitOracle /\ [][NextOracle]_vars

\* set_sector(sector_id) on orchestrator o
SetSector ==
  \E o \in 1..criados, sector_id \in Setores \cup {None} :
    LET orc == AposSetSector(Oraculo(o), sector_id)
    IN /\ memory' = [memory EXCEPT ![o] = orc.memory]
       /\ last_sources' = [last_sources EXCEPT ![o] = orc.last_sources]
       /\ oracle_sector' = [oracle_sector EXCEPT ![o] = orc.sector_id]
       /\ ret' = [SemRet EXCEPT !.op = "set_sector", !.setor = sector_id, !.oracle = o,
                                !.antes = Len(documentos)]
       /\ UNCHANGED <<gens, oracle_instances, criados, documentos, disk, falhas,
                      chamadas>>

NextSetor ==
  \/ SetSector
  \/ Responder
  \/ PrimeiroNext({TRUE}, {"fragmento", "fim"})
  \/ ProximoNext({"fim"})

\* one orchestrator whose sector is switched between its answers
SpecSetor == InitOracle /\ [][NextSetor]_vars

(***************************************************************************)
(* The registry and the endpoints that use it                              *)
(***************************************************************************)
\* the knowledge base when only sector 1 has ingested a document
BaseDoSetor1 == NovosDocs(<<"z", "w", "z">>, "a.pdf", "pdf", "1", "T1")

InitRegistro ==
  /\ documentos \in {<<>>, BaseDoSetor1}
  /\ disk = SalvarDb(documentos, Ausente, "ok")
  /\ falhas = 0
  /\ ret = SemRet
  /\ InitRag
  /\ chamadas = [t \in Threads |-> SemChamada]

\* POST /chat: sector_id is what the handler passes on, str(sector_id) if
\* sector_id else None; the generator is the one generate() obtains from
\* oracle.responder(request.message)
Chat ==
  \E sector_id \in Setores \cup {None}, message \in {"x"} :
    LET chamada == [SemRet EXCEPT !.op = "chat", !.setor = sector_id,
                                  !.pergunta = message, !.antes = Len(documentos)]
    IN /\ UNCHANGED <<documentos, disk, falhas, chamadas>>
       /\ IF SemDocumentos(documentos, sector_id)
          THEN /\ ret' = [chamada EXCEPT !.status = "400"]
               /\ UNCHANGED ragVars
          ELSE \E o \in 1..MaxOraculos, g \in 1..MaxGens :
                 /\ GetOracleRag(sector_id, o)
                 /\ gens[g].pc = "livre"
                 /\ \A h \in 1..(g - 1) : gens[h].pc # "livre"
                 /\ gens' = [gens EXCEPT ![g] = [GenLivre EXCEPT !.pc = "criado", !.self = o,
                                                                !.pergunta = message,
                                                                !.na_chamada = memory[o]]]
                 /\ ret' = [chamada EXCEPT !.oracle = o]
                 /\ UNCHANGED <<memory, last_sources>>

\* a caller obtains the orchestrator of a sector: get_oracle_rag(sector_id)
ObterOracle ==
  \E sector_id \in Setores \cup {None}, o \in 1..MaxOraculos :
    /\ GetOracleRag(sector_id, o)
    /\ ret' = [SemRet EXCEPT !.op = "get_oracle_rag", !.setor = sector_id, !.oracle = o,
                             !.antes = Len(documentos)]
    /\ UNCHANGED <<memory, last_sources, gens, documentos, disk, falhas, chamadas>>

\* reset_oracle_rag(sector_id): the entry of the sector, or every entry
ResetOracleRag ==
  \E sector_id \in Setores \cup {None} :
    /\ oracle_instances' = IF sector_id # None
                           THEN [oracle_instances EXCEPT ![Str(sector_id)] = 0]
                           ELSE [key \in ChavesDoRegistro |-> 0]
    /\ ret' = [SemRet EXCEPT !.op = "reset_oracle_rag", !.setor = sector_id,
                             !.antes = Len(documentos)]
    /\ UNCHANGED <<memory, last_sources, oracle_sector, gens, criados, documentos, disk,
                   falhas, chamadas>>

NextRegistro ==
  \/ Chat
  \/ ObterOracle
  \/ ResetOracleRag
  \/ PrimeiroNext({TRUE}, {"fragmento"})
  \/ ProximoNext({"fim"})

\* the endpoints and the registry of orchestrators over a knowledge base
\* that is empty or holds documents of sector 1 only; the providers answer,
\* every answer in one fragment
SpecRegistro == InitRegistro /\ [][NextRegistro]_vars

(***************************************************************************)
(* Streams of several script threads on one orchestrator (app.py: every   *)
(* browser session runs chat_interface in a thread of its own, and all of *)
(* them get the same object from get_oracle_rag())                         *)
(***************************************************************************)
\* the provider's stream of generator g has ended and the thread of g runs
\* self._memory.chat_memory.add_user_message(pergunta)
AddUserMessage ==
  \E g \in 1..MaxGens :
    LET gen == gens[g]
    IN /\ gen.pc = "suspenso"
       /\ gens' = [gens EXCEPT ![g].pc = "gravando"]
       /\ memory' = [memory EXCEPT ![gen.self] = @ \o <<Mensagem("user", gen.pergunta)>>]
       /\ UNCHANGED <<last_sources, oracle_sector, oracle_instances, criados, storeVars>>

\* the thread of g runs
\* self._memory.chat_memory.add_ai_message(resposta_completa) and the
\* generator ends
AddAiMessage ==
  \E g \in 1..MaxGens :
    LET gen == gens[g]
    IN /\ gen.pc = "gravando"
       /\ gens' = [gens EXCEPT ![g] = GenApos(gen, "fim")]
       /\ memory' = [memory EXCEPT ![gen.self] =
                       @ \o <<Mensagem("assistant", gen.resposta_completa)>>]
       /\ UNCHANGED <<last_sources, oracle_sector, oracle_instances, criados, storeVars>>

NextSessoes ==
  \/ Responder
  \/ PrimeiroNext({TRUE}, {"fragmento"})
  \/ ProximoNext({"fragmento"})
  \/ AddUserMessage
  \/ AddAiMessage
  \/ LimparMemoria

\* one orchestrator shared by the threads of several sessions: the two
\* appends that end a stream are steps of their own
SpecSessoes == InitOracle /\ [][NextSessoes]_vars

(***************************************************************************)
(* responder_com_fontes over a knowledge base that changes                 *)
(***************************************************************************)
\* responder_com_fontes(pergunta, sector_id) on orchestrator o: retrieval
\* and citation list in the call, then responder(pergunta, sector_id=sector)
\* builds the generator; the caller gets the generator and the list
\* (com_fontes, fontes). When embed_query raises, the call raises and nothing
\* has changed
ResponderComFontes(embs) ==
  \E o \in 1..criados, g \in 1..MaxGens, pergunta \in Perguntas, sector_id \in {None, "2"},
     embOk \in embs :
    LET sector == SectorOu(sector_id, oracle_sector[o])
        docs == Buscar(documentos, pergunta, sector, NoneNum, NoneNum)
    IN /\ gens[g].pc = "livre"
       /\ \A h \in 1..(g - 1) : gens[h].pc # "livre"
       /\ UNCHANGED <<memory, oracle_sector, oracle_instances, criados, storeVars>>
       /\ IF DoSetor(documentos, sector) # <<>> /\ ~embOk
          THEN UNCHANGED <<gens, last_sources>>
          ELSE /\ last_sources' = [last_sources EXCEPT ![o] = ExtractSources(docs)]
               /\ gens' = [gens EXCEPT ![g] =
                             [GenLivre EXCEPT !.pc = "criado", !.self = o,
                                              !.pergunta = pergunta, !.sector_id = sector,
                                              !.na_chamada = memory[o],
                                              !.com_fontes = TRUE,
                                              !.fontes = ExtractSources(docs)]]

NextFontes ==
  \/ ResponderComFontes(BOOLEAN)
  \/ Responder
  \/ PrimeiroNext({TRUE}, {"fragmento", "fim"})
  \/ ProximoNext({"fim"})
  \/ LimparBase({"ok"})
  \/ RemoverDocumento({"ok"})

\* one orchestrator answering with citations while documents are removed
\* from the knowledge base
SpecFontes == InitOracle /\ [][NextFontes]_vars

(***************************************************************************)
(* Calls of two threads on the one KnowledgeBase of the process (app.py:  *)
(* every browser session runs its script in a thread of its own, and      *)
(* get_knowledge_base() gives all of them the same object). A thread can  *)
(* be preempted between any two of the steps below                         *)
(***************************************************************************)
\* a call of another thread is under way
EmCurso(t) == \E u \in Threads \ {t} : chamadas[u].pc \notin {"livre", "fim"}

\* chamadas after thread t has entered the call c: calls that run at the
\* same time are no longer alone
AposEntrar(t, c) ==
  [u \in Threads |->
     IF u = t THEN [c EXCEPT !.sozinha = ~EmCurso(t)]
     ELSE IF chamadas[u].pc \in {"livre", "fim"} THEN chamadas[u]
     ELSE [chamadas[u] EXCEPT !.sozinha = FALSE]]

\* the chunks that the calls under way have built and not yet stored
PorEstender ==
  LET n(u) == IF chamadas[u].pc = "embutido" THEN Len(chamadas[u].novos_docs) ELSE 0
  IN n(1) + n(2)

\* adicionar_documento up to the list novos_docs: split, embed, stamp; with
\* no chunk the call returns 0 at once
IniciarAdicionar(t) ==
  \E texto \in Textos, e \in Entradas, sector_id \in Setores, timestamp \in Leituras :
    LET novos_docs == NovosDocs(texto, e[1], e[2], sector_id, timestamp)
        c == [SemChamada EXCEPT !.op = "adicionar_documento", !.fonte = e[1],
                                !.setor = sector_id, !.novos_docs = novos_docs,
                                !.pc = IF novos_docs = <<>> THEN "fim" ELSE "embutido"]
    IN /\ chamadas[t].pc = "livre"
       /\ Len(documentos) + PorEstender + Len(novos_docs) <= MaxChunks
       /\ chamadas' = AposEntrar(t, c)
       /\ UNCHANGED <<documentos, disk, falhas, ret, ragVars>>

\* self._documentos.extend(novos_docs): on the list that is bound now
Estender(t) ==
  /\ chamadas[t].pc = "embutido"
  /\ documentos' = documentos \o chamadas[t].novos_docs
  /\ chamadas' = [chamadas EXCEPT ![t].pc = "salvando"]
  /\ UNCHANGED <<disk, falhas, ret, ragVars>>

\* remover_documento up to the list that its comprehension builds from the
\* list bound now
IniciarRemover(t) ==
  \E fonte \in Fontes, sector_id \in Setores \cup {None} :
    LET c == [SemChamada EXCEPT !.op = "remover_documento", !.fonte = fonte,
                                !.setor = sector_id, !.pc = "filtrado",
                                !.filtrados = AposRemover(documentos, fonte, sector_id)]
    IN /\ chamadas[t].pc = "livre"
       /\ chamadas' = AposEntrar(t, c)
       /\ UNCHANGED <<documentos, disk, falhas, ret, ragVars>>

\* limpar_base up to the list that its comprehension builds, or the empty
\* list when every sector is cleared
IniciarLimpar(t) ==
  \E sector_id \in Setores \cup {None} :
    LET c == [SemChamada EXCEPT !.op = "limpar_base", !.setor = sector_id,
                                !.pc = "filtrado",
                                !.filtrados = AposLimpar(documentos, sector_id)]
    IN /\ chamadas[t].pc = "livre"
       /\ chamadas' = AposEntrar(t, c)
       /\ UNCHANGED <<documentos, disk, falhas, ret, ragVars>>

\* self._documentos = [...]: the attribute is bound to the list built before
Religar(t) ==
  /\ chamadas[t].pc = "filtrado"
  /\ documentos' = chamadas[t].filtrados
  /\ chamadas' = [chamadas EXCEPT ![t].pc = "salvando"]
  /\ UNCHANGED <<disk, falhas, ret, ragVars>>

\* _salvar_db: open(self._db_path, 'w') leaves an empty file
Abrir(t) ==
  /\ chamadas[t].pc = "salvando"
  /\ disk' = Corrompido
  /\ chamadas' = [chamadas EXCEPT ![t].pc = "aberto"]
  /\ UNCHANGED <<documentos, falhas, ret, ragVars>>

\* _salvar_db: dados = [asdict(d) for d in self._documentos]
Copiar(t) ==
  /\ chamadas[t].pc = "aberto"
  /\ chamadas' = [chamadas EXCEPT ![t].pc = "copiado", ![t].dados = documentos]
  /\ UNCHANGED <<documentos, disk, falhas, ret, ragVars>>

\* the file has been written through another handle since this thread
\* opened it, or another handle is open on it
OutraEscrita(t) ==
  \/ disk.estado = "ok"
  \/ \E u \in Threads \ {t} : chamadas[u].pc \in {"aberto", "copiado"}

\* _salvar_db: json.dump and the close of the file, and the call returns
\* (len(novos_docs) or True). Two handles that write the same file from its
\* start leave the text of this one or a mixture of both
Fechar(t) ==
  /\ chamadas[t].pc = "copiado"
  /\ \/ disk' = SalvarDb(chamadas[t].dados, disk, "ok")
     \/ OutraEscrita(t) /\ disk' = Corrompido
  /\ chamadas' = [chamadas EXCEPT ![t].pc = "fim"]
  /\ UNCHANGED <<documentos, falhas, ret, ragVars>>

\* the knowledge base before the two calls
InitThreads ==
  /\ documentos \in {<<>>, BaseDoSetor1}
  /\ disk = SalvarDb(documentos, Ausente, "ok")
  /\ falhas = 0
  /\ ret = SemRet
  /\ InitRag
  /\ chamadas = [t \in Threads |-> SemChamada]

NextThreads ==
  \E t \in Threads :
    \/ IniciarAdicionar(t)
    \/ Estender(t)
    \/ IniciarRemover(t)
    \/ IniciarLimpar(t)
    \/ Religar(t)
    \/ Abrir(t)
    \/ Copiar(t)
    \/ Fechar(t)

\* two threads, each with one mutating call on the shared knowledge base
SpecThreads == InitThreads /\ [][NextThreads]_vars

(***************************************************************************)
(* Properties of the knowledge base                                        *)
(***************************************************************************)
\* score of a stored record for the question of the last buscar
ScoreDe(d) == CosineSimilarity(Embed(ret.pergunta), d.embedding)

\* the threshold and k the last buscar used
ThresholdUsado == IF ret.threshold = NoneNum THEN SIMILARITY_THRESHOLD ELSE ret.threshold
KUsado == IF ret.k = NoneNum THEN TOP_K_RESULTS ELSE ret.k

BuscaFeita == ret.op = "buscar" /\ ret.status = "ok"

\* C1: every record that buscar(query, sector_id=B) returns is a stored
\* record of sector B, whatever its score, the threshold, k and the fallback
C1_IsolamentoDaBusca ==
  (BuscaFeita /\ ret.setor # None) =>
    \A i \in 1..Len(ret.pares) :
      /\ ret.pares[i].doc.sector_id = ret.setor
      /\ \E j \in 1..Len(documentos) : documentos[j] = ret.pares[i].doc
      /\ Retorno[i].content = ret.pares[i].doc.content
      /\ Retorno[i].source = ret.pares[i].doc.source

\* a search of sector 2 answered by the fallback while sector 1 holds a record
\* that scores above everything returned
C1_Witness ==
  /\ BuscaFeita /\ ret.setor = "2" /\ ret.pares # <<>>
  /\ \E i \in 1..Len(ret.pares) : ret.pares[i].score < ThresholdUsado
  /\ \E j \in 1..Len(documentos) :
       /\ documentos[j].sector_id = "1"
       /\ \A i \in 1..Len(ret.pares) : ScoreDe(documentos[j]) > ret.pares[i].score

\* the records a sector-filtered deletion is to remove
Visado(d, op, fonte, setor) ==
  IF op = "limpar_base" THEN d.sector_id = setor
  ELSE d.source = fonte /\ d.sector_id = setor

\* C2: limpar_base(sector_id=B) removes exactly the records of sector B and
\* remover_documento(fonte, sector_id=B) (as the delete_document endpoint)
\* exactly the records of source fonte in sector B; every other record stays,
\* unchanged and in the same relative order
C2_IsolamentoDaRemocao ==
  [][(/\ ret'.op \in {"limpar_base", "remover_documento", "delete_document"}
      /\ ret'.setor # None
      /\ ret'.antes = Len(documentos))
     => LET ficam == {i \in 1..Len(documentos) :
                        ~Visado(documentos[i], ret'.op, ret'.fonte, ret'.setor)}
        IN /\ Len(documentos') = Cardinality(ficam)
           /\ \A i \in ficam :
                documentos'[Cardinality({j \in ficam : j <= i})] = documentos[i]]_vars

\* remover_documento took a source out of sector 1 and left the chunks of the
\* same source in sector 2
C2_Witness ==
  /\ ret.op = "remover_documento" /\ ret.setor = "1" /\ ret.status = "ok"
  /\ Len(documentos) < ret.antes
  /\ Len(documentos) >= 2
  /\ \A j \in 1..Len(documentos) :
       documentos[j].source = ret.fonte /\ documentos[j].sector_id = "2"

\* the persisted file holds the in-memory collection
Consistente == disk.estado = "ok" /\ CarregarDb(disk) = documentos

\* a mutating call that returned success (add reports the chunks it appended,
\* clear and remove return True, the endpoint answers 200)
MutacaoComSucesso ==
  /\ ret.status = "ok"
  /\ \/ ret.op \in {"limpar_base", "remover_documento", "delete_document"}
     \/ ret.op = "adicionar_documento" /\ ret.n > 0

\* C3: after a mutating call that returned success the persisted file holds
\* the in-memory collection, same records in the same order; and as long as
\* no write has failed and the file was readable at startup, the two agree
\* after every call
C3_Persistencia ==
  /\ MutacaoComSucesso => Consistente
  /\ (falhas = 0 /\ disk.estado # "corrompido") => CarregarDb(disk) = documentos

\* the endpoint removed a document, after an earlier failed write, and left
\* records in the store
C3_Witness ==
  /\ ret.op = "delete_document" /\ ret.status = "ok" /\ ret.n > 0
  /\ falhas > 0 /\ documentos # <<>>

\* C5: with C the sector-filtered candidates sorted by score and F those of C
\* at or above the threshold, buscar returns the first k of C when |F| < 3 and
\* |C| >= 3, and the first k of F otherwise
C5_Fallback ==
  BuscaFeita =>
    LET C == Resultados(documentos, ret.pergunta, ret.setor)
        F == SelectSeq(C, LAMBDA r : r.score >= ThresholdUsado)
        esperado == IF Len(F) < 3 /\ Len(C) >= 3 THEN C ELSE F
    IN /\ Len(ret.pares) = Min(KUsado, Len(esperado))
       /\ \A i \in 1..Len(ret.pares) : ret.pares[i] = esperado[i]
       /\ (Len(C) = 3 /\ F = <<>>) => Len(ret.pares) = Min(KUsado, 3)
       /\ (Len(C) = 2 /\ F = <<>>) => ret.pares = <<>>

\* exactly 3 candidates, all below the threshold, and the search returned some
C5_Witness ==
  /\ BuscaFeita /\ ret.pares # <<>>
  /\ Len(DoSetor(documentos, ret.setor)) = 3
  /\ \A i \in 1..Len(documentos) :
       documentos[i].sector_id = ret.setor => ScoreDe(documentos[i]) < ThresholdUsado

\* C6: for k >= 1, buscar on a tenant with at least one stored chunk returns a
\* non-empty result
C6_NuncaSemContexto ==
  (/\ BuscaFeita /\ ret.setor # None /\ KUsado >= 1
   /\ \E j \in 1..Len(documentos) : documentos[j].sector_id = ret.setor)
  => ret.pares # <<>>

\* the records with score s, in order
ComScore(pares, s) == SelectSeq(pares, LAMBDA r : r.score = s)

\* C7: the list buscar returns is in non-increasing score order, and returned
\* candidates of equal score are in their insertion order in the store
C7_Ordem ==
  BuscaFeita =>
    /\ \A i, j \in 1..Len(ret.pares) :
         i < j => ret.pares[i].score >= ret.pares[j].score
    /\ \A i \in 1..Len(ret.pares) :
         LET s == ret.pares[i].score
             noStore == SelectSeq(documentos,
                          LAMBDA d : /\ ret.setor # None => d.sector_id = ret.setor
                                     /\ ScoreDe(d) = s)
             devolvidos == ComScore(ret.pares, s)
         IN /\ Len(devolvidos) <= Len(noStore)
            /\ \A n \in 1..Len(devolvidos) : devolvidos[n].doc = noStore[n]

\* two distinct records of one score came back, with a lower score after them
C7_Witness ==
  /\ BuscaFeita /\ Len(ret.pares) >= 3
  /\ ret.pares[1].score = ret.pares[2].score
  /\ ret.pares[1].doc # ret.pares[2].doc
  /\ ret.pares[3].score < ret.pares[2].score

RECURSIVE Soma(_, _)
\* sum of f over the set S
Soma(f, S) ==
  IF S = {} THEN 0
  ELSE LET x == CHOOSE y \in S : TRUE IN f[x] + Soma(f, S \ {x})

\* the store of the scenario: a.pdf (3 chunks) under sector 1, then https://s
\* (2 chunks) under sector 2
Cenario ==
  /\ Len(documentos) = 5
  /\ \A i \in 1..3 : documentos[i].source = "a.pdf" /\ documentos[i].sector_id = "1"
  /\ \A i \in 4..5 : documentos[i].source = "https://s" /\ documentos[i].sector_id = "2"

\* C8: get_estatisticas(sector_id=B) counts only the records of sector B:
\* total_chunks their number, total_documentos their distinct sources, and the
\* per-type counts sum to total_chunks; in the scenario, sector 1 has
\* total_documentos = 1 and total_chunks = 3
C8_Estatisticas ==
  (ret.op = "get_estatisticas" /\ ret.setor # None) =>
    LET doSetor == {i \in 1..Len(documentos) : documentos[i].sector_id = ret.setor}
    IN /\ ret.stats.total_chunks = Cardinality(doSetor)
       /\ ret.stats.total_documentos = Cardinality({documentos[i].source : i \in doSetor})
       /\ Soma(ret.stats.tipos, DOMAIN ret.stats.tipos) = ret.stats.total_chunks
       /\ (Cenario /\ ret.setor = "1") =>
            ret.stats.total_documentos = 1 /\ ret.stats.total_chunks = 3

\* the statistics of sector 1 in the scenario
C8_Witness ==
  /\ ret.op = "get_estatisticas" /\ ret.setor = "1" /\ Cenario
  /\ ret.stats.total_documentos = 1 /\ ret.stats.total_chunks = 3

\* the records of one (source, upload_date)
Grupo(fonte, data) ==
  {i \in 1..Len(documentos) :
     documentos[i].source = fonte /\ documentos[i].upload_date = data}

\* C9: every group of stored records of one (source, upload_date) has
\* chunk_index values covering 0..total_chunks-1 exactly once, and one
\* total_chunks
C9_ChunkCount ==
  \A i \in 1..Len(documentos) :
    LET g == Grupo(documentos[i].source, documentos[i].upload_date)
        total == documentos[i].total_chunks
    IN /\ \A j \in g : documentos[j].total_chunks = total
       /\ \A n \in 0..(total - 1) :
            Cardinality({j \in g : documentos[j].chunk_index = n}) = 1
       /\ \A j \in g : documentos[j].chunk_index \in 0..(total - 1)

\* C10: no two records of the store have the same id
C10_IdsUnicos ==
  \A i, j \in 1..Len(documentos) : i # j => documentos[i].id # documentos[j].id

(***************************************************************************)
(* Properties of the persisted file and of the results of the operations   *)
(***************************************************************************)
\* C11: saving the collection with _salvar_db and loading the file again
\* with _carregar_db yields the same records, equal in every field and in the
\* same order
C11_RoundTrip ==
  LET arquivo == SalvarDb(documentos, disk, "ok")
  IN /\ arquivo.estado = "ok"
     /\ Len(arquivo.dados) = Len(documentos)
     /\ CarregarDb(arquivo) = documentos

\* a new process loaded a file that the earlier one wrote on an add: records
\* with optional metadata set, records without it and the added ones
C11_Witness ==
  /\ ret.op = "construir" /\ Len(documentos) >= 4 /\ Consistente
  /\ \E i \in 1..Len(documentos) : documentos[i].content_type = "table"
  /\ \E i \in 1..Len(documentos) : documentos[i].sector_id = "default"
  /\ \E i \in 1..Len(documentos) : documentos[i].upload_date = "T1"

\* the file is absent or is not parseable
SemArquivo == disk.estado \in {"ausente", "corrompido"}

\* C12: a store constructed over an absent or unreadable file has an empty
\* collection, and the calls that follow work: a search returns the empty
\* list, the statistics are zero, an add of a text with chunks returns their
\* number, and the collection and the file then hold exactly those records
C12_Recuperacao ==
  /\ [](SemArquivo => documentos = <<>>)
  /\ [][SemArquivo =>
         /\ ret'.op = "construir" => ret'.status = "ok" /\ documentos' = <<>>
         /\ ret'.op = "buscar" => ret'.status = "ok" /\ ret'.pares = <<>>
         /\ ret'.op = "get_estatisticas" =>
              ret'.stats.total_chunks = 0 /\ ret'.stats.total_documentos = 0
         /\ (ret'.op = "adicionar_documento" /\ SplitText(ret'.texto) # <<>>) =>
              /\ ret'.status = "ok"
              /\ ret'.n = Len(SplitText(ret'.texto))
              /\ Len(documentos') = ret'.n
              /\ disk'.estado = "ok"
              /\ CarregarDb(disk') = documentos']_vars

\* the statistics of a store that started over an unparseable file
C12_Witness ==
  /\ disk.estado = "corrompido" /\ documentos = <<>>
  /\ ret.op = "get_estatisticas" /\ ret.stats.total_chunks = 0

\* C13: every well-formed record of the file is in the collection, whatever
\* the other records of the file hold in their optional fields; and a record
\* without the optional fields is loaded with their defaults
C13_CargaTolerante ==
  (disk.estado = "ok" /\ ret.op \in {"nenhuma", "construir"}) =>
    \A i \in 1..Len(disk.dados) :
      LET dic == disk.dados[i]
      IN /\ DictValido(dic) =>
              \E j \in 1..Len(documentos) : documentos[j] = FromDict(dic)
         /\ Chaves(dic) = CamposObrigatorios =>
              \E j \in 1..Len(documentos) :
                /\ documentos[j].id = Valor(dic, "id")
                /\ documentos[j].page_number = None
                /\ documentos[j].timestamp_start = None
                /\ documentos[j].timestamp_end = None
                /\ documentos[j].heading_context = None

\* a text whose chunking yields nothing
Branco(texto) == \A i \in 1..Len(texto) : texto[i] = " "

\* C14: adicionar_documento on a text whose chunking yields nothing returns 0
\* without raising, whatever the embedding provider would have answered, and
\* leaves the collection and the file as they were; an add that returns a
\* count has appended that many records at the end of the collection
C14_AdicionarVazio ==
  [][(ret'.op = "adicionar_documento" /\ ret'.antes = Len(documentos)) =>
       IF Branco(ret'.texto)
       THEN /\ ret'.status = "ok" /\ ret'.n = 0
            /\ documentos' = documentos /\ disk' = disk
       ELSE ret'.status = "ok" =>
              /\ ret'.n > 0
              /\ Len(documentos') = Len(documentos) + ret'.n
              /\ SubSeq(documentos', 1, Len(documentos)) = documentos
              /\ \A j \in (Len(documentos) + 1)..Len(documentos') :
                   /\ documentos'[j].source = ret'.fonte
                   /\ documentos'[j].sector_id = ret'.setor]_vars

\* a whitespace-only text was added to a store that holds records, after a
\* write of the file had failed
C14_Witness ==
  /\ ret.op = "adicionar_documento" /\ Branco(ret.texto) /\ ret.n = 0
  /\ ret.status = "ok" /\ documentos # <<>> /\ falhas > 0

\* C15: remover_documento and the delete_document endpoint report the number
\* of chunks they removed, 0 when no record matched
C15_RemoverInformaContagem ==
  [][(/\ ret'.op \in {"remover_documento", "delete_document"}
      /\ ret'.antes = Len(documentos)
      /\ ret'.status \in {"ok", "404"})
     => ret'.n = Len(documentos) - Len(documentos')]_vars

(***************************************************************************)
(* Properties of the orchestrator                                          *)
(***************************************************************************)
\* the turn of a generator asked pergunta that has delivered enviados
Turno(pergunta, enviados) ==
  <<Mensagem("user", pergunta), Mensagem("assistant", enviados)>>

\* C4: a responder call appends its user message and the full response to the
\* session only in the step in which the provider stream ends normally; a
\* step in which the consumer drops the generator or the provider fails
\* leaves the history as it was
C4_SemTurnoParcial ==
  [][\A g \in 1..MaxGens :
       /\ (gens[g].pc # "completo" /\ gens'[g].pc = "completo")
            => memory' = [memory EXCEPT ![gens[g].self] =
                            @ \o Turno(gens[g].pergunta, gens[g].enviados)]
       /\ (gens[g].pc # gens'[g].pc /\ gens'[g].pc \in {"erro", "abandonado", "suspenso"})
            => memory' = memory]_vars

\* in a session that holds one committed turn, the provider failed after a
\* fragment had been delivered
C4_Witness ==
  /\ Len(memory[1]) = 2
  /\ \E g \in 1..MaxGens : gens[g].pc = "erro" /\ gens[g].enviados # <<>>

\* the records of the tenant of a request: all of them when it names no sector
DoTenant(setor) ==
  {i \in 1..Len(documentos) : setor = None \/ documentos[i].sector_id = setor}

C17_HistoricoVisivel ==
  [][\A g \in 1..MaxGens :
       (gens[g].pc = "criado" /\ gens'[g].pc = "suspenso")
         => gens'[g].chat_history = gens[g].na_chamada]_vars

\* C18: set_sector(s) on an orchestrator whose sector differs from s sets the
\* sector to s and leaves the history and the citation list empty;
\* set_sector with the sector it already has changes none of the three; the
\* generators are left alone
C18_TrocaDeSetor ==
  [][(ret' # ret /\ ret'.op = "set_sector") =>
       LET o == ret'.oracle
       IN /\ IF oracle_sector[o] # ret'.setor
             THEN /\ oracle_sector'[o] = ret'.setor
                  /\ memory'[o] = <<>>
                  /\ last_sources'[o] = <<>>
             ELSE /\ oracle_sector'[o] = oracle_sector[o]
                  /\ memory'[o] = memory[o]
                  /\ last_sources'[o] = last_sources[o]
          /\ gens' = gens]_vars

\* the orchestrator was switched to sector 2 after a turn had been committed,
\* and holds no message and no citation
C18_Witness ==
  /\ ret.op = "set_sector" /\ ret.setor = "2" /\ oracle_sector[1] = "2"
  /\ memory[1] = <<>> /\ last_sources[1] = <<>>
  /\ \E g \in 1..MaxGens : gens[g].pc = "completo"

\* the registry key of the tenant of a request
ChaveDoTenant(setor) == IF setor = None THEN "global" ELSE setor

\* C19: no two keys of the registry hold the same orchestrator;
\* get_oracle_rag returns the orchestrator its key already holds, with its
\* history as it was, or else a newly constructed one with an empty history,
\* which it enters under that key only; and a generator that commits its
\* turn changes the history of its own orchestrator only
C19_Registro ==
  /\ [](\A k1, k2 \in ChavesDoRegistro :
          (k1 # k2 /\ oracle_instances[k1] # 0) => oracle_instances[k1] # oracle_instances[k2])
  /\ [][/\ (ret' # ret /\ ret'.op \in {"get_oracle_rag", "chat"} /\ ret'.status = "ok") =>
            LET key == ChaveDoTenant(ret'.setor)
                o == ret'.oracle
            IN /\ oracle_instances'[key] = o
               /\ \A k \in ChavesDoRegistro \ {key} :
                    oracle_instances'[k] = oracle_instances[k]
               /\ memory' = memory
               /\ IF oracle_instances[key] # 0
                  THEN o = oracle_instances[key]
                  ELSE /\ o = criados + 1
                       /\ memory[o] = <<>>
                       /\ oracle_sector'[o] = ret'.setor
        /\ \A g \in 1..MaxGens :
             (gens[g].pc # "completo" /\ gens'[g].pc = "completo") =>
               /\ memory'[gens[g].self] # memory[gens[g].self]
               /\ \A o \in 1..MaxOraculos \ {gens[g].self} : memory'[o] = memory[o]]_vars

\* get_oracle_rag returned to sector 1 the orchestrator that holds its turn,
\* while the global orchestrator holds another
C19_Witness ==
  /\ ret.op = "get_oracle_rag" /\ ret.setor = "1"
  /\ ret.oracle = oracle_instances["1"]
  /\ memory[ret.oracle] # <<>>
  /\ oracle_instances["global"] # 0
  /\ memory[oracle_instances["global"]] # <<>>

\* the place in the ranked list of the first chunk of source f
PrimeiroDe(docs, f) ==
  CHOOSE i \in 1..Len(docs) : docs[i].source = f /\ \A j \in 1..(i - 1) : docs[j].source # f

\* C20: the citation list that the first step of a responder call builds
\* from the ranked chunks has one entry for each distinct source, in the
\* order in which the sources first occur; the excerpt of an entry is the
\* content of the first chunk of its source, whole when it has at most 150
\* characters, else its first 150 characters followed by "..."
C20_Citacoes ==
  [][\A g \in 1..MaxGens :
       (gens[g].pc = "criado" /\ gens'[g].pc \in {"suspenso", "completo"}) =>
         LET o == gens[g].self
             docs == Buscar(documentos, gens[g].pergunta,
                            SectorOu(gens[g].sector_id, oracle_sector[o]), NoneNum, NoneNum)
             cit == last_sources'[o]
             fontes == {docs[i].source : i \in 1..Len(docs)}
         IN /\ Len(cit) = Cardinality(fontes)
            /\ {cit[i].name : i \in 1..Len(cit)} = fontes
            /\ \A i, j \in 1..Len(cit) :
                 i < j => PrimeiroDe(docs, cit[i].name) < PrimeiroDe(docs, cit[j].name)
            /\ \A i \in 1..Len(cit) :
                 LET c == docs[PrimeiroDe(docs, cit[i].name)].content
                 IN cit[i].excerpt =
                      IF Tamanho(c) <= 150
                      THEN [texto |-> c, ate |-> Tamanho(c), sufixo |-> ""]
                      ELSE [texto |-> c, ate |-> 150, sufixo |-> "..."]]_vars

\* five ranked chunks of two sources gave two citations, and the second one
\* carries a whole content of 150 characters
C20_Witness ==
  /\ Len(last_sources[1]) = 2
  /\ last_sources[1][1].name = "https://s" /\ last_sources[1][2].name = "a.pdf"
  /\ last_sources[1][2].excerpt = [texto |-> "z", ate |-> 150, sufixo |-> ""]
  /\ \E g \in 1..MaxGens : gens[g].pc = "suspenso" /\ gens[g].pergunta = "y"

\* C21: every entry of the citation list that the first step of a responder
\* call builds carries, as its score, the similarity score that buscar gave
\* to the first ranked chunk of the entry's source
C21_ScoreDaCitacao ==
  [][\A g \in 1..MaxGens :
       (gens[g].pc = "criado" /\ gens'[g].pc \in {"suspenso", "completo"}) =>
         LET o == gens[g].self
             docs == Buscar(documentos, gens[g].pergunta,
                            SectorOu(gens[g].sector_id, oracle_sector[o]), NoneNum, NoneNum)
             cit == last_sources'[o]
         IN \A i \in 1..Len(cit) :
              /\ cit[i].score # None
              /\ cit[i].score = docs[PrimeiroDe(docs, cit[i].name)].score]_vars

\* C22: in the context that the first step of a responder call assembles,
\* part number i is the i-th ranked chunk, labelled ALTA exactly when its
\* score is above 0.8, MEDIA exactly when it is above 0.6 and at most 0.8,
\* and BAIXA otherwise; with no ranked chunk the context is the fixed "no
\* information" text and has no parts
C22_Relevancia ==
  [][\A g \in 1..MaxGens :
       (gens[g].pc = "criado" /\ gens'[g].pc = "suspenso") =>
         LET o == gens[g].self
             docs == Buscar(documentos, gens[g].pergunta,
                            SectorOu(gens[g].sector_id, oracle_sector[o]), NoneNum, NoneNum)
             ctx == gens'[g].contexto
         IN IF docs = <<>>
            THEN /\ ctx.partes = <<>>
                 /\ ctx.fixo = "Nenhuma informacao encontrada na base de conhecimento."
            ELSE /\ ctx.fixo = ""
                 /\ Len(ctx.partes) = Len(docs)
                 /\ \A i \in 1..Len(docs) :
                      LET p == ctx.partes[i]
                          score == docs[i].score
                      IN /\ p.i = i
                         /\ p.fonte = docs[i].source /\ p.conteudo = docs[i].content
                         /\ p.relevancia \in {"ALTA", "MEDIA", "BAIXA"}
                         /\ p.relevancia = "ALTA" <=> score > 80
                         /\ p.relevancia = "MEDIA" <=> (60 < score /\ score <= 80)]_vars

\* one stream holds a context whose chunks of scores 1.0, 1.0, 0.8, 0.8 and
\* 0.6 are labelled in that order, another holds the "no information" text
C22_Witness ==
  \E g, h \in 1..MaxGens :
    /\ gens[g].pc = "suspenso" /\ gens[g].pergunta = "y"
    /\ [i \in 1..Len(gens[g].contexto.partes) |-> gens[g].contexto.partes[i].relevancia]
         = <<"ALTA", "ALTA", "MEDIA", "MEDIA", "BAIXA">>
    /\ gens[h].pc = "suspenso"
    /\ gens[h].contexto = [fixo |-> SemInformacao, partes |-> <<>>]

\* C24: when the write of the file fails during limpar_base or
\* remover_documento, the call returns False and the collection in memory is
\* the one from before the call
C24_MemoriaIntacta ==
  [][(ret'.op \in {"limpar_base", "remover_documento"} /\ falhas' = falhas + 1) =>
       /\ ret'.status = "false"
       /\ documentos' = documentos]_vars

\* C25: when the embedding call fails during adicionar_documento, the error
\* reaches the caller with the collection in memory and the file as they
\* were before the call, so no chunk of the document is stored
C25_TudoOuNada ==
  [][(ret'.op = "adicionar_documento" /\ ret'.status = "erro" /\ falhas' = falhas) =>
       /\ documentos' = documentos
       /\ disk' = disk]_vars

\* an add failed at the embedding call on a store that holds an earlier
\* document, and memory and file hold that document only
C25_Witness ==
  /\ ret.op = "adicionar_documento" /\ ret.status = "erro"
  /\ falhas = 0
  /\ documentos # <<>> /\ Len(documentos) = ret.antes
  /\ \A i \in 1..Len(documentos) : documentos[i].source # ret.fonte
  /\ disk.estado = "ok" /\ CarregarDb(disk) = documentos

\* no thread is between the two appends that end a stream on orchestrator o
Quieto(o) == \A g \in 1..MaxGens : gens[g].pc = "gravando" => gens[g].self # o

\* C26: whenever no stream of an orchestrator is in the middle of saving its
\* turn, the history of the orchestrator has even length, its messages are
\* user, assistant, user, assistant, ... and every assistant message is the
\* fragments of one stream, in the order in which they were streamed
C26_Pareamento ==
  \A o \in 1..criados :
    Quieto(o) =>
      /\ Len(memory[o]) % 2 = 0
      /\ \A i \in 1..Len(memory[o]) :
           IF i % 2 = 1
           THEN /\ memory[o][i].role = "user"
                /\ memory[o][i].content \in Perguntas
           ELSE /\ memory[o][i].role = "assistant"
                /\ memory[o][i].content =
                     [k \in 1..Len(memory[o][i].content) |-> Fragmento(k)]

\* s is the beginning of t
Prefixa(s, t) == Len(s) <= Len(t) /\ \A i \in 1..Len(s) : t[i] = s[i]

\* C27: the history of an orchestrator holds no turn of a stream that was in
\* flight at a reset. Without a reset a history only grows, so a stream that
\* saves its turn finds a history that begins with the one it was started on
\* (chat_history); after limpar_memoria the history is empty and the turn of
\* a stream started on a non-empty history must not be appended
C27_ResetDescartaEmVoo ==
  [][\A g \in 1..MaxGens :
       (gens[g].pc = "suspenso" /\ gens'[g].pc = "completo") =>
         LET o == gens[g].self
         IN memory'[o] # memory[o] => Prefixa(gens[g].chat_history, memory[o])]_vars

\* C28: a stream that saves its turn into the history of an orchestrator
\* retrieved its chunks under the sector of that orchestrator, also when the
\* call named another sector
C28_SessaoDoTenant ==
  [][\A g \in 1..MaxGens :
       (gens[g].pc \in {"criado", "suspenso"} /\ gens'[g].pc = "completo") =>
         LET o == gens[g].self
         IN memory'[o] # memory[o] =>
              SectorOu(gens[g].sector_id, oracle_sector[o]) = oracle_sector[o]]_vars

\* C29: the call responder(pergunta) by itself retrieves nothing, calls no
\* provider and leaves every citation list and every history as they were:
\* the new generator has no context, no history and no fragment. A citation
\* list is overwritten with citations only in the step in which a generator
\* of its orchestrator is asked for its first fragment
C29_SemConsumoSemEfeito ==
  [][/\ \A g \in 1..MaxGens :
          (gens[g].pc = "livre" /\ gens'[g].pc = "criado") =>
            /\ memory' = memory /\ last_sources' = last_sources
            /\ documentos' = documentos /\ disk' = disk
            /\ gens'[g].contexto = SemContexto
            /\ gens'[g].chat_history = <<>>
            /\ gens'[g].enviados = <<>> /\ gens'[g].resposta_completa = <<>>
     /\ \A o \in 1..MaxOraculos :
          (last_sources'[o] # last_sources[o] /\ last_sources'[o] # <<>>) =>
            \E g \in 1..MaxGens :
              gens[g].self = o /\ gens[g].pc = "criado" /\ gens'[g].pc # "criado"]_vars

\* a generator was created for a question that has chunks to retrieve and
\* was not consumed: it holds no context, and its orchestrator has neither
\* citations nor turns
C29_Witness ==
  \E g \in 1..MaxGens :
    /\ gens[g].pc = "criado"
    /\ Buscar(documentos, gens[g].pergunta,
              SectorOu(gens[g].sector_id, oracle_sector[gens[g].self]), NoneNum, NoneNum) # <<>>
    /\ gens[g].contexto = SemContexto
    /\ last_sources[gens[g].self] = <<>> /\ memory[gens[g].self] = <<>>

\* the ranked chunks that a context was assembled from, as far as the
\* citation list depends on them
DocsDoContexto(ctx) ==
  [i \in 1..Len(ctx.partes) |->
     [source |-> ctx.partes[i].fonte, content |-> ctx.partes[i].conteudo]]

\* C30: the citation list that responder_com_fontes returned with a
\* generator is the citation list of the chunks from which the generator
\* assembles its context at its first step, whatever happened to the store
\* or the orchestrator between the call and that step
C30_CitacoesDoContexto ==
  [][\A g \in 1..MaxGens :
       (gens[g].pc = "criado" /\ gens[g].com_fontes /\ gens'[g].pc = "suspenso") =>
         gens[g].fontes = ExtractSources(DocsDoContexto(gens'[g].contexto))]_vars

\* the records of docs, as a set
Registros(docs) == {docs[i] : i \in 1..Len(docs)}

\* C23: two mutating calls that run at the same time can lose an update
\* although both return success (C23_Witness is such a run), and only such
\* calls can: a call during which no other call ran returns with its effect
\* in memory (the new chunks at the end of the collection, or the collection
\* that its filter built) and with a file that loads to the collection in
\* memory
C23_PerdaSoComSobreposicao ==
  [][\A t \in Threads :
       (chamadas[t].pc = "copiado" /\ chamadas'[t].pc = "fim" /\ chamadas[t].sozinha) =>
         LET c == chamadas[t]
             n == Len(documentos')
         IN /\ disk'.estado = "ok" /\ CarregarDb(disk') = documentos'
            /\ IF c.op = "adicionar_documento"
               THEN /\ Len(c.novos_docs) <= n
                    /\ SubSeq(documentos', n - Len(c.novos_docs) + 1, n) = c.novos_docs
               ELSE documentos' = c.filtrados]_vars

\* an add for one sector and a remove or clear for the other sector have
\* both returned, the file is readable, and neither the collection in memory
\* nor the file holds any chunk of the added document
C23_Witness ==
  \E t, u \in Threads :
    /\ chamadas[t].pc = "fim" /\ chamadas[u].pc = "fim"
    /\ chamadas[t].op = "adicionar_documento" /\ chamadas[t].novos_docs # <<>>
    /\ chamadas[u].op \in {"remover_documento", "limpar_base"}
    /\ chamadas[u].setor # None /\ chamadas[u].setor # chamadas[t].setor
    /\ Registros(chamadas[t].novos_docs) \cap Registros(documentos) = {}
    /\ disk.estado = "ok"
    /\ Registros(chamadas[t].novos_docs) \cap Registros(CarregarDb(disk)) = {}

====
